---- MODULE Spec2Model ----
(***************************************************************************)
(* The extract pipeline of opal (opal/core/search/extract.py): the CSV     *)
(* renderers, the nested and the multi-file extract, and zip_archive.      *)
(*                                                                         *)
(* Python values are tagged records [type, v]; a path is the sequence of   *)
(* its components, an absolute path starting with the component "/".       *)
(* An optional argument (None or a value) is a sequence of length 0 or 1.  *)
(***************************************************************************)
EXTENDS Integers, Sequences, FiniteSets, TLC

(* ---------------------------------------------------------------- bounds *)

\* Subrecords stored in the database, over all models.
MaxRecords == 2

(* --------------------------------------------------------- python values *)

Unicode(s) == [type |-> "unicode", v |-> s]

Bytes(s) == [type |-> "str", v |-> s]

PyInt(n) == [type |-> "int", v |-> ToString(n)]

PyList(items) == [type |-> "list", items |-> items]

\* getattr(obj, name) of a model instance: an attribute value that is not text
Attr(s) == [type |-> "attr", v |-> s]

\* six.text_type(x)
text_type(x) == Unicode(x.v)

RECURSIVE StrJoin(_, _)
\* sep.join(strs)
StrJoin(sep, strs) ==
    IF Len(strs) = 0 THEN ""
    ELSE IF Len(strs) = 1 THEN strs[1]
    ELSE strs[1] \o sep \o StrJoin(sep, Tail(strs))

RECURSIVE Concat(_)
\* the concatenation of a sequence of sequences (list.extend in a loop)
Concat(ss) == IF Len(ss) = 0 THEN <<>> ELSE Head(ss) \o Concat(Tail(ss))

Range(s) == {s[i] : i \in 1..Len(s)}

Max(S) == CHOOSE x \in S : \A y \in S : y <= x

\* the list without the first occurrence of x (list.remove(x), x present)
ListRemove(s, x) ==
    LET i == CHOOSE k \in 1..Len(s) : s[k] = x /\ \A j \in 1..(k - 1) : s[j] # x
    IN  SubSeq(s, 1, i - 1) \o SubSeq(s, i + 1, Len(s))

(* ------------------------------------------------------------- encoding *)

_encode_to_utf8(some_var) ==
    IF some_var.type # "unicode" THEN some_var ELSE Bytes(some_var.v)

(* ------------------------------------------------------- model registry *)

\* Subrecord models of opal/tests/models.py (Birthday, HatWearer,
\* PatientColour, FamousLastWords, EpisodeName), in subrecords.subrecords()
\* order: api name, parent (episode or patient subrecord), _is_singleton,
\* _exclude_from_extract, display name, and the fields the class declares.
SubrecordModels == <<
    [api_name |-> "birthday", parent |-> "patient", _is_singleton |-> FALSE,
     _exclude_from_extract |-> FALSE, display_name |-> "Birthday",
     declared |-> <<"birth_date", "party">>],
    [api_name |-> "hat_wearer", parent |-> "episode", _is_singleton |-> FALSE,
     _exclude_from_extract |-> FALSE, display_name |-> "Wearer of Hats",
     declared |-> <<"name", "hats", "wearing_a_hat">>],
    [api_name |-> "patient_colour", parent |-> "patient", _is_singleton |-> FALSE,
     _exclude_from_extract |-> TRUE, display_name |-> "Patient Colour",
     declared |-> <<"name">>],
    [api_name |-> "famous_last_words", parent |-> "patient", _is_singleton |-> TRUE,
     _exclude_from_extract |-> FALSE, display_name |-> "Famous Last Words",
     declared |-> <<"words">>],
    [api_name |-> "episode_name", parent |-> "episode", _is_singleton |-> TRUE,
     _exclude_from_extract |-> FALSE, display_name |-> "Episode Name",
     declared |-> <<"name">>] >>

\* opal.models.Episode as the renderers see it
EpisodeModel ==
    [api_name |-> "episode", parent |-> "none", _is_singleton |-> FALSE,
     _exclude_from_extract |-> FALSE, display_name |-> "Episode",
     declared |-> <<"id", "category_name", "patient_id", "created",
                    "created_by_id">>]

ApiNames == {SubrecordModels[i].api_name : i \in 1..Len(SubrecordModels)}

\* subrecords.get_subrecord_from_api_name(api_name)
get_subrecord_from_api_name(api_name) ==
    IF api_name = "episode" THEN EpisodeModel
    ELSE SubrecordModels[CHOOSE i \in 1..Len(SubrecordModels) :
                             SubrecordModels[i].api_name = api_name]

\* subrecord in subrecords.episode_subrecords()
IsEpisodeSubrecord(model) == model.parent = "episode"

\* model._get_fieldnames_to_extract(): the base class's fields, then the
\* fields the class declares
_get_fieldnames_to_extract(model) ==
    IF model.parent = "none" THEN model.declared
    ELSE <<"consistency_token", "id", model.parent \o "_id">> \o model.declared

\* str.title() of the names the renderers use, and the titles of the fields
TitleOf(name) ==
    CASE name = "team" -> "Team"
      [] name = "start" -> "Start"
      [] name = "end" -> "End"
      [] name = "created" -> "Created"
      [] name = "updated" -> "Updated"
      [] name = "id" -> "Id"
      [] name = "category_name" -> "Category Name"
      [] name = "patient_id" -> "Patient Id"
      [] name = "episode_id" -> "Episode Id"
      [] name = "created_by_id" -> "Created By Id"
      [] name = "updated_by_id" -> "Updated By Id"
      [] name = "consistency_token" -> "Consistency Token"
      [] name = "birth_date" -> "Birth Date"
      [] name = "party" -> "Party"
      [] name = "name" -> "Name"
      [] name = "hats" -> "Hats"
      [] name = "wearing_a_hat" -> "Wearing A Hat"
      [] name = "words" -> "Only Words"

\* model._get_field_title(field_name)
_get_field_title(model, field_name) == TitleOf(field_name)

\* model.get_display_name()
get_display_name(model) == model.display_name

(* ------------------------------------------------------------- database *)

\* The episodes table: episode i has id i and belongs to patient
\* EpisodePatient[i]; two episodes of one patient and one of another.
EpisodePatient == <<1, 1, 2>>

Episodes == 1..Len(EpisodePatient)

\* Episode.patient_id
PatientOf(e) == EpisodePatient[e]

Patients == {PatientOf(e) : e \in Episodes}

\* an Episode instance
EpisodeInstance(e) == [model |-> "episode", id |-> e, parent |-> PatientOf(e)]

ParentsOf(model) == IF model.parent = "episode" THEN Episodes ELSE Patients

\* model.objects.all(), in id order
Objects(tables, model) ==
    [i \in 1..Len(tables[model.api_name]) |->
        [model |-> model.api_name, id |-> i, parent |-> tables[model.api_name][i]]]

\* instance.to_dict(user)[field_name]
to_dict(instance, field_name) ==
    CASE field_name = "id" -> PyInt(instance.id)
      [] field_name \in {"patient_id", "episode_id"} -> PyInt(instance.parent)
      [] field_name = "hats" ->
            PyList(<<Unicode("bowler"), Unicode("hat " \o ToString(instance.id))>>)
      [] OTHER ->
            Unicode(instance.model \o "." \o ToString(instance.id) \o "." \o field_name)

\* episode.get_tag_names(user, historic=True)
get_tag_names(episode) ==
    IF episode.id % 2 = 1 THEN <<"micro", "id_inpatients">> ELSE <<>>

(* ------------------------------------------------------------ CsvColumn *)

\* CsvColumn.__init__: value and display_name are optional (<<>> is None);
\* a missing value reads the attribute called name, a missing display_name
\* is name.title().
CsvColumn(name, value, display_name) ==
    [name |-> name,
     value |-> IF Len(value) > 0 THEN value[1] ELSE "getattr",
     display_name |-> IF Len(display_name) > 0 THEN display_name[1]
                      ELSE TitleOf(name)]

\* the class attribute non_field_csv_columns of each renderer class
non_field_csv_columns(cls) ==
    CASE cls = "PatientSubrecordCsvRenderer" ->
            << CsvColumn("episode_id", <<"text_type(episode_id)">>, <<"Episode">>) >>
      [] cls = "EpisodeSubrecordCsvRenderer" ->
            << CsvColumn("patient_id", <<"text_type(instance.episode.patient_id)">>,
                         <<"Patient">>) >>
      [] cls = "EpisodeCsvRenderer" ->
            << CsvColumn("team", <<"get_tag_names">>, <<>>),
               CsvColumn("start", <<>>, <<>>),
               CsvColumn("end", <<>>, <<>>),
               CsvColumn("created", <<>>, <<>>),
               CsvColumn("updated", <<>>, <<>>),
               CsvColumn("created_by_id", <<>>, <<"Created By">>),
               CsvColumn("updated_by_id", <<>>, <<"Updated By">>),
               CsvColumn("patient_id", <<>>, <<"Patient">>) >>

\* column.value(renderer, instance, *args): the value functions of the columns
ColumnValue(column, instance, args) ==
    CASE column.value = "text_type(episode_id)" -> text_type(PyInt(args[1]))
      [] column.value = "text_type(instance.episode.patient_id)" ->
            text_type(PyInt(PatientOf(instance.parent)))
      [] column.value = "get_tag_names" ->
            text_type(Bytes(StrJoin(";", get_tag_names(instance))))
      [] column.value = "getattr" ->
            IF column.name = "patient_id" THEN PyInt(instance.parent)
            ELSE Attr(instance.model \o "." \o ToString(instance.id) \o "."
                      \o column.name)

(* ---------------------------------------------------------- CsvRenderer *)

get_non_field_csv_column_names(cls) ==
    [i \in 1..Len(non_field_csv_columns(cls)) |-> non_field_csv_columns(cls)[i].name]

\* next(i for i in self.non_field_csv_columns if i.name == field_name)
get_non_field_csv_columns(cls, field_name) ==
    LET cols == non_field_csv_columns(cls)
        i == CHOOSE k \in 1..Len(cols) :
                /\ cols[k].name = field_name
                /\ \A j \in 1..(k - 1) : cols[j].name # field_name
    IN  cols[i]

\* CsvRenderer.get_field_names_to_render
CsvRenderer_get_field_names_to_render(cls, model) ==
    LET all == _get_fieldnames_to_extract(model)
        field_names == IF "consistency_token" \in Range(all)
                       THEN ListRemove(all, "consistency_token") ELSE all
        result == get_non_field_csv_column_names(cls)
        non_field_csv_columns_set == Range(result)
        NotColumn(field_name) == field_name \notin non_field_csv_columns_set
    IN  result \o SelectSeq(field_names, NotColumn)

get_field_names_to_renderKeepId(cls, model) ==
    CsvRenderer_get_field_names_to_render(cls, model)

\* get_field_names_to_render of the renderer classes: the two subrecord
\* renderers remove "id" from the base class's list
get_field_names_to_render(cls, model) ==
    IF cls \in {"PatientSubrecordCsvRenderer", "EpisodeSubrecordCsvRenderer"}
    THEN ListRemove(CsvRenderer_get_field_names_to_render(cls, model), "id")
    ELSE CsvRenderer_get_field_names_to_render(cls, model)

\* CsvRenderer.__init__: the fields argument is optional (<<>> is None), and
\* an empty list counts as no argument (if fields:)
CsvRenderer(cls, model, queryset, fields, patient_to_episode) ==
    [cls |-> cls, model |-> model, queryset |-> queryset,
     fields |-> IF Len(fields) > 0 /\ Len(fields[1]) > 0 THEN fields[1]
                ELSE get_field_names_to_render(cls, model),
     patient_to_episode |-> patient_to_episode]

get_headers(self) ==
    LET names == Range(get_non_field_csv_column_names(self.cls))
    IN  [i \in 1..Len(self.fields) |->
            IF self.fields[i] \in names
            THEN get_non_field_csv_columns(self.cls, self.fields[i]).display_name
            ELSE _get_field_title(self.model, self.fields[i])]

RECURSIVE JoinText(_)
\* "; ".join(text_type(i) for i in col_value)
JoinText(items) ==
    IF Len(items) = 0 THEN ""
    ELSE IF Len(items) = 1 THEN text_type(items[1]).v
    ELSE text_type(items[1]).v \o "; " \o JoinText(Tail(items))

\* get_field_value(field_name, data), data the instance's to_dict
get_field_value(field_name, instance) ==
    LET col_value == to_dict(instance, field_name)
    IN  IF col_value.type = "list" THEN Unicode(JoinText(col_value.items))
        ELSE text_type(col_value)

get_rowToDict(self, instance, args) ==
    [i \in 1..Len(self.fields) |->
        _encode_to_utf8(get_field_value(self.fields[i], instance))]

get_row(self, instance, args) ==
    LET names == Range(get_non_field_csv_column_names(self.cls))
    IN  [i \in 1..Len(self.fields) |->
            _encode_to_utf8(
                IF self.fields[i] \in names
                THEN ColumnValue(get_non_field_csv_columns(self.cls, self.fields[i]),
                                 instance, args)
                ELSE get_field_value(self.fields[i], instance))]

\* CsvRenderer.count
count(self) == Len(self.queryset)

(* -------------------------------------------------- the renderer classes *)

\* the ids of a sequence of episodes
Ids(episodes) == [i \in 1..Len(episodes) |-> episodes[i].id]

PatientSubrecordCsvRendererUnfiltered(tables, model, episode_queryset, fields) ==
    LET patient_to_episode ==
            [p \in {episode_queryset[i].parent : i \in 1..Len(episode_queryset)} |->
                LET OfPatient(episode) == episode.parent = p
                IN  Ids(SelectSeq(episode_queryset, OfPatient))]
    IN  CsvRenderer("PatientSubrecordCsvRenderer", model, Objects(tables, model),
                    fields, patient_to_episode)

\* PatientSubrecordCsvRenderer.__init__: patient_to_episode lists, for each
\* patient of the episode queryset, its episodes' ids in queryset order; the
\* queryset holds the model's records of those patients.
PatientSubrecordCsvRenderer(tables, model, episode_queryset, fields) ==
    LET patient_to_episode ==
            [p \in {episode_queryset[i].parent : i \in 1..Len(episode_queryset)} |->
                LET OfPatient(episode) == episode.parent = p
                IN  Ids(SelectSeq(episode_queryset, OfPatient))]
        InPatients(sub) == sub.parent \in DOMAIN patient_to_episode
    IN  CsvRenderer("PatientSubrecordCsvRenderer", model,
                    SelectSeq(Objects(tables, model), InPatients),
                    fields, patient_to_episode)

\* EpisodeSubrecordCsvRenderer.__init__: the queryset holds the model's
\* records of the episodes of the episode queryset.
EpisodeSubrecordCsvRenderer(tables, model, episode_queryset, fields) ==
    LET InEpisodes(sub) == sub.parent \in Range(Ids(episode_queryset))
    IN  CsvRenderer("EpisodeSubrecordCsvRenderer", model,
                    SelectSeq(Objects(tables, model), InEpisodes),
                    fields, <<>>)

\* the renderer the generate functions construct for a subrecord model
SubrecordRenderer(tables, subrecord, episodes, fields) ==
    IF IsEpisodeSubrecord(subrecord)
    THEN EpisodeSubrecordCsvRenderer(tables, subrecord, episodes, fields)
    ELSE PatientSubrecordCsvRenderer(tables, subrecord, episodes, fields)

\* EpisodeCsvRenderer(Episode, episodes, user, fields)
EpisodeCsvRenderer(episodes, fields) ==
    CsvRenderer("EpisodeCsvRenderer", EpisodeModel, episodes, fields, <<>>)

\* d[key] of a defaultdict(list): a missing key reads as the empty list
defaultdict_get(d, key) == IF key \in DOMAIN d THEN d[key] ELSE <<>>

get_rowsFirstEpisode(self) ==
    IF self.cls = "PatientSubrecordCsvRenderer"
    THEN [i \in 1..Len(self.queryset) |->
            get_row(self, self.queryset[i],
                    <<defaultdict_get(self.patient_to_episode,
                                      self.queryset[i].parent)[1]>>)]
    ELSE [i \in 1..Len(self.queryset) |-> get_row(self, self.queryset[i], <<>>)]

\* get_rows: CsvRenderer's yields one row per instance of the queryset,
\* PatientSubrecordCsvRenderer's one row per record and episode of its patient
get_rows(self) ==
    IF self.cls = "PatientSubrecordCsvRenderer"
    THEN Concat([i \in 1..Len(self.queryset) |->
                    LET sub == self.queryset[i]
                        eps == defaultdict_get(self.patient_to_episode, sub.parent)
                    IN  [j \in 1..Len(eps) |-> get_row(self, sub, <<eps[j]>>)]])
    ELSE [i \in 1..Len(self.queryset) |-> get_row(self, self.queryset[i], <<>>)]

\* the number of records of the queryset that belong to parent
CountOf(queryset, parent) ==
    Cardinality({i \in 1..Len(queryset) : queryset[i].parent = parent})

flat_repetitionsTotal(self) ==
    IF Len(self.queryset) = 0 THEN 0
    ELSE IF self.model._is_singleton THEN 1
    ELSE Len(self.queryset)

\* flat_repetitions of the two subrecord renderers: the Max of the Count of
\* records per patient_id, or per episode_id
flat_repetitions(self) ==
    IF Len(self.queryset) = 0 THEN 0
    ELSE IF self.model._is_singleton THEN 1
    ELSE Max({CountOf(self.queryset, self.queryset[i].parent) :
                 i \in 1..Len(self.queryset)})

\* CsvRenderer.get_flat_headers
CsvRenderer_get_flat_headers(self) ==
    LET single_headers == get_headers(self)
        repetitions == flat_repetitions(self)
    IN  IF repetitions = 1
        THEN [i \in 1..Len(single_headers) |->
                 get_display_name(self.model) \o " " \o single_headers[i]]
        ELSE Concat([rep \in 1..repetitions |->
                        [i \in 1..Len(single_headers) |->
                            get_display_name(self.model) \o " " \o ToString(rep)
                                \o " " \o single_headers[i]]])

\* get_flat_headers: EpisodeCsvRenderer overrides it
get_flat_headers(self) ==
    IF self.cls = "EpisodeCsvRenderer"
    THEN LET single_headers == get_headers(self)
         IN  [i \in 1..Len(single_headers) |-> "Episode " \o single_headers[i]]
    ELSE CsvRenderer_get_flat_headers(self)

\* the cached property flat_row_length
flat_row_length(self) == Len(get_flat_headers(self))

get_nested_rowUnpadded(self, episode) ==
    IF self.cls = "EpisodeCsvRenderer" THEN get_row(self, episode, <<>>)
    ELSE LET parent == IF self.cls = "PatientSubrecordCsvRenderer"
                       THEN episode.parent ELSE episode.id
             OfParent(sub) == sub.parent = parent
             nested_subrecords == SelectSeq(self.queryset, OfParent)
             args == IF self.cls = "PatientSubrecordCsvRenderer"
                     THEN <<episode.id>> ELSE <<>>
         IN  Concat([j \in 1..Len(nested_subrecords) |->
                            get_row(self, nested_subrecords[j], args)])

get_nested_rowAllRecords(self, episode) ==
    IF self.cls = "EpisodeCsvRenderer" THEN get_row(self, episode, <<>>)
    ELSE LET args == IF self.cls = "PatientSubrecordCsvRenderer"
                     THEN <<episode.id>> ELSE <<>>
             result == Concat([j \in 1..Len(self.queryset) |->
                                  get_row(self, self.queryset[j], args)])
         IN  result \o [i \in 1..(flat_row_length(self) - Len(result)) |-> Bytes("")]

\* get_nested_row: the rows of the records of the episode (of the episode's
\* patient), then '' up to flat_row_length; EpisodeCsvRenderer's is get_row
get_nested_row(self, episode) ==
    IF self.cls = "EpisodeCsvRenderer" THEN get_row(self, episode, <<>>)
    ELSE LET parent == IF self.cls = "PatientSubrecordCsvRenderer"
                       THEN episode.parent ELSE episode.id
             OfParent(sub) == sub.parent = parent
             nested_subrecords == SelectSeq(self.queryset, OfParent)
             args == IF self.cls = "PatientSubrecordCsvRenderer"
                     THEN <<episode.id>> ELSE <<>>
             result == Concat([j \in 1..Len(nested_subrecords) |->
                                  get_row(self, nested_subrecords[j], args)])
         IN  result \o [i \in 1..(flat_row_length(self) - Len(result)) |-> Bytes("")]

(* ------------------------------------------------- the data dictionary *)

\* the titles in the order Python compares strings
TitleOrder ==
    <<"Birth Date", "Category Name", "Consistency Token", "Created",
      "Created By Id", "End", "Episode Id", "Hats", "Id", "Name", "Only Words",
      "Party", "Patient Id", "Start", "Team", "Updated", "Updated By Id",
      "Wearing A Hat">>

\* title a < title b exactly when TitleRank(a) < TitleRank(b)
TitleRank(title) == CHOOSE i \in 1..Len(TitleOrder) : TitleOrder[i] = title

RECURSIVE sorted(_)
\* sorted(fields, key=lambda x: x["title"]): stable
sorted(fields) ==
    IF Len(fields) <= 1 THEN fields
    ELSE LET x == Head(fields)
             rest == sorted(Tail(fields))
             Smaller(y) == TitleRank(y.title) < TitleRank(x.title)
             NotSmaller(y) == ~Smaller(y)
         IN  SelectSeq(rest, Smaller) \o <<x>> \o SelectSeq(rest, NotSmaller)

\* schemas.extract_download_schema_for_model(model): the model's name and
\* display name and, per extract field, its name and title
extract_download_schema_for_model(model) ==
    LET field_names == _get_fieldnames_to_extract(model)
    IN  [name |-> model.api_name,
         display_name |-> get_display_name(model),
         fields |-> [i \in 1..Len(field_names) |->
                        [name |-> field_names[i],
                         title |-> _get_field_title(model, field_names[i])]]]

\* EpisodeCsvRenderer.get_schema
EpisodeCsvRenderer_get_schema ==
    LET schema == extract_download_schema_for_model(EpisodeModel)
    IN  [schema EXCEPT !.fields =
            sorted(Append(@, [name |-> "team", title |-> "Team", type |-> "string",
                              type_display_name |-> "Text Field"]))]

\* PatientSubrecordCsvRenderer.get_schema and
\* EpisodeSubrecordCsvRenderer.get_schema
SubrecordCsvRenderer_get_schema(cls, subrecord) ==
    extract_download_schema_for_model(subrecord)

\* the EpisodeCsvRenderer class as ExtractCsvSerialiser.list() yields it
EpisodeSerialiser == [cls |-> "EpisodeCsvRenderer", slug |-> "episode"]

\* a serialiser that an application defines for a subrecord model, with a
\* schema of its own
AppSerialiser(api_name) == [cls |-> "AppSerialiser", slug |-> api_name]

\* i.get_slug()
get_slug(serialiser) == serialiser.slug

\* i.get_schema() of a discovered serialiser
get_schema(serialiser) ==
    IF serialiser.cls = "EpisodeCsvRenderer" THEN EpisodeCsvRenderer_get_schema
    ELSE [name |-> serialiser.slug,
          display_name |-> serialiser.cls \o " " \o serialiser.slug,
          fields |-> <<>>]

get_data_dictionary_schemaAllDefaults(list) ==
    [i \in 1..Len(list) |-> get_schema(list[i])] \o
    [i \in 1..Len(SubrecordModels) |->
        extract_download_schema_for_model(SubrecordModels[i])]

\* ExtractCsvSerialiser.get_data_dictionary_schema, list what cls.list() yields
get_data_dictionary_schema(list) ==
    LET slugs_to_serialiser == {get_slug(list[i]) : i \in 1..Len(list)}
        patient_subrecords_api_names ==
            {SubrecordModels[i].api_name :
                i \in {k \in 1..Len(SubrecordModels) :
                          ~IsEpisodeSubrecord(SubrecordModels[k])}}
        Undescribed(subrecord) == subrecord.api_name \notin slugs_to_serialiser
        rest == SelectSeq(SubrecordModels, Undescribed)
    IN  [i \in 1..Len(list) |-> get_schema(list[i])] \o
        [i \in 1..Len(rest) |->
            IF rest[i].api_name \in patient_subrecords_api_names
            THEN SubrecordCsvRenderer_get_schema("PatientSubrecordCsvRenderer", rest[i])
            ELSE SubrecordCsvRenderer_get_schema("EpisodeSubrecordCsvRenderer", rest[i])]

\* what ExtractCsvSerialiser.list() can yield: EpisodeCsvRenderer, alone or
\* among serialisers of applications, each with a slug of its own
Discovered ==
    {<<EpisodeSerialiser>>,
     <<EpisodeSerialiser, AppSerialiser("hat_wearer")>>,
     <<AppSerialiser("famous_last_words"), EpisodeSerialiser>>,
     <<AppSerialiser("birthday"), EpisodeSerialiser, AppSerialiser("episode_name")>>}

(* ------------------------------------------------------------ the files *)

\* os.path.join(a, b) on component sequences: an absolute b replaces a
path_join(a, b) == IF Len(b) > 0 /\ b[1] = "/" THEN b ELSE a \o b

\* tempfile.mkdtemp()
target_dir == <<"/", "tmp", "tmpdir">>

\* text_type(datetime.date.today())
today == "2016-11-03"

\* a CSV file as csv.writer leaves it: the header row, then the data rows
CsvFile(headers, rows) == [kind |-> "csv", headers |-> headers, rows |-> rows]

\* write_to_file(file_name): the file that self writes
write_to_file(self) == CsvFile(get_headers(self), get_rows(self))

\* write_data_dictionary(file_name): the rendered template
write_data_dictionary == [kind |-> "html", headers |-> <<>>, rows |-> <<>>]

(* ------------------------------------------------------------ the inputs *)

RECURSIVE SeqOfSet(_)
\* the episodes of a set of ids, in id order
SeqOfSet(S) ==
    IF S = {} THEN <<>>
    ELSE LET m == CHOOSE x \in S : \A y \in S : x <= y
         IN  <<EpisodeInstance(m)>> \o SeqOfSet(S \ {m})

\* the episode querysets a caller passes
EpisodeQuerysets == {SeqOfSet(S) : S \in SUBSET Episodes}

\* the users a caller passes
Usernames == {"ohc"}

\* the field lists a caller asks for, per model: none, or a non-field column
\* of the model's renderer followed by a field of the model
FieldLists(api_name) ==
    LET model == get_subrecord_from_api_name(api_name)
    IN  { <<>>,
          IF api_name = "episode" THEN <<"patient_id", "category_name">>
          ELSE IF model.parent = "patient" THEN <<"episode_id", model.declared[1]>>
          ELSE <<"patient_id", model.declared[1]>> }

\* a field_dict of several models, 'episode' not first in dict order
SeveralModels ==
    << <<"hat_wearer", <<"name">> >>, <<"episode", <<"id", "team">> >>,
       <<"birthday", <<"birth_date", "episode_id">> >> >>

\* the field_dict arguments of generate_nested_csv_extract: api names (in
\* dict order) with their field lists
FieldDicts ==
    UNION {{<< <<k, l>> >> : l \in FieldLists(k)} : k \in ApiNames \cup {"episode"}}
    \cup {<<>>, SeveralModels}

\* the field_dict arguments passed through zip_archive
ZipFieldDicts ==
    {<< <<"episode", <<"patient_id", "category_name">> >> >>,
     << <<"hat_wearer", <<>> >> >>,
     SeveralModels}

\* the episode querysets passed to a renderer constructed on its own: in
\* any order, the episodes of one patient apart
RendererQuerysets ==
    {<<>>,
     <<EpisodeInstance(3)>>,
     <<EpisodeInstance(2), EpisodeInstance(1)>>,
     <<EpisodeInstance(2), EpisodeInstance(3), EpisodeInstance(1)>>}

\* key in field_dict
HasKey(field_dict, key) == \E i \in 1..Len(field_dict) : field_dict[i][1] = key

\* field_dict[key]
Lookup(field_dict, key) ==
    field_dict[CHOOSE i \in 1..Len(field_dict) : field_dict[i][1] = key][2]

(* ---------------------------------------------------------------- state *)

VARIABLES
    tables,      \* the database: api name -> the parents of its records, by id
    pc,          \* where zip_archive is
    episodes,    \* zip_archive's arguments
    fields,
    username,
    idx,         \* the position of the running loop
    file_names,  \* the (absolute file name, file name) pairs generated so far
    disk,        \* the files written: [path, file] in the order written
    archive,     \* the entries of extract.zip, in the order written
    result,      \* <<>> or <<the path returned>>
    error,       \* <<>> or <<the step that raised>>
    returned     \* <<>> or <<what a method called on its own returned>>

vars == <<tables, pc, episodes, fields, username, idx, file_names, disk,
          archive, result, error, returned>>

RECURSIVE SumLen(_, _)
SumLen(t, names) ==
    IF names = {} THEN 0
    ELSE LET n == CHOOSE x \in names : TRUE
         IN  Len(t[n]) + SumLen(t, names \ {n})

TotalRecords == SumLen(tables, ApiNames)

zipfolder == username \o "." \o today

root_dir == path_join(target_dir, <<zipfolder>>)

target == path_join(target_dir, <<"extract.zip">>)

zip_relative_file_pathFlat(file_name) == <<file_name>>

\* functools.partial(os.path.join, zipfolder)
zip_relative_file_path(file_name) == path_join(<<zipfolder>>, <<file_name>>)

Init ==
    /\ tables = [a \in ApiNames |-> <<>>]
    /\ pc = "idle"
    /\ episodes = <<>>
    /\ fields = <<>>
    /\ username = "ohc"
    /\ idx = 0
    /\ file_names = <<>>
    /\ disk = <<>>
    /\ archive = <<>>
    /\ result = <<>>
    /\ error = <<>>
    /\ returned = <<>>

\* A subrecord is stored (Model.objects.create): of a singleton model only
\* when its episode or patient has none yet.
CreateSubrecord(api_name, parent) ==
    LET model == get_subrecord_from_api_name(api_name)
    IN  /\ pc = "idle"
        /\ TotalRecords < MaxRecords
        /\ parent \in ParentsOf(model)
        /\ model._is_singleton => parent \notin Range(tables[api_name])
        /\ tables' = [tables EXCEPT ![api_name] = Append(@, parent)]
        /\ UNCHANGED <<pc, episodes, fields, username, idx, file_names, disk,
                       archive, result, error, returned>>

(* ---------------------------------------------------------- zip_archive *)

\* the file last written at path
DiskRead(path) ==
    disk[CHOOSE i \in 1..Len(disk) :
            disk[i].path = path /\ \A j \in (i + 1)..Len(disk) : disk[j].path # path].file

\* if fields: None and the empty dict are both false
Truthy(optional) == Len(optional) > 0 /\ Len(optional[1]) > 0

\* the fields arguments a caller passes: None, {} or a field_dict
FieldsArguments == {<<>>, << <<>> >>} \cup {<<d>> : d \in ZipFieldDicts}

\* zip_archive is called: the temporary directory, the open zip file and
\* the folder root_dir exist, nothing is generated yet.
ZipArchive(eps, flds, user) ==
    /\ pc = "idle"
    /\ pc' = "write_data_dictionary"
    /\ episodes' = eps
    /\ fields' = flds
    /\ username' = user
    /\ UNCHANGED <<tables, idx, file_names, disk, archive, result, error, returned>>

\* Both generate functions start with the data dictionary.
WriteDataDictionary ==
    LET file_name == "data_dictionary.html"
        full_file_name == path_join(root_dir, <<file_name>>)
    IN  /\ pc = "write_data_dictionary"
        /\ disk' = Append(disk, [path |-> full_file_name, file |-> write_data_dictionary])
        /\ file_names' = Append(file_names, <<full_file_name, file_name>>)
        /\ pc' = IF Truthy(fields) THEN "nested_csv" ELSE "episodes_csv"
        /\ UNCHANGED <<tables, episodes, fields, username, idx, archive, result, error, returned>>

\* the renderers of generate_nested_csv_extract: the episode renderer first
\* when 'episode' is a key, then one per other key in dict order
NestedRenderers(tbls, eps, field_dict) ==
    LET NotEpisode(item) == item[1] # "episode"
        others == SelectSeq(field_dict, NotEpisode)
        first == IF HasKey(field_dict, "episode")
                 THEN << EpisodeCsvRenderer(eps, <<Lookup(field_dict, "episode")>>) >>
                 ELSE <<>>
    IN  first \o
        [i \in 1..Len(others) |->
            SubrecordRenderer(tbls, get_subrecord_from_api_name(others[i][1]), eps,
                              <<others[i][2]>>)]

\* extract.csv: the flat headers of all renderers, then per episode the
\* nested rows of all renderers
NestedCsv(tbls, eps, field_dict) ==
    LET renderers == NestedRenderers(tbls, eps, field_dict)
    IN  CsvFile(Concat([r \in 1..Len(renderers) |-> get_flat_headers(renderers[r])]),
                [e \in 1..Len(eps) |->
                    Concat([r \in 1..Len(renderers) |->
                               get_nested_row(renderers[r], eps[e])])])

\* generate_nested_csv_extract after the data dictionary, in zip_archive
GenerateNestedCsv ==
    LET csv_file_name == "extract.csv"
        full_file_name == path_join(root_dir, <<csv_file_name>>)
    IN  /\ pc = "nested_csv"
        /\ file_names' = Append(file_names, <<full_file_name, csv_file_name>>)
        /\ disk' = Append(disk, [path |-> full_file_name,
                                 file |-> NestedCsv(tables, episodes, fields[1])])
        /\ pc' = "zip"
        /\ idx' = 1
        /\ UNCHANGED <<tables, episodes, fields, username, archive, result, error, returned>>

\* generate_nested_csv_extract(root_dir, episodes, user, field_dict) called
\* on its own and returning: the data dictionary and extract.csv are
\* written, and file_names is what it returns.
generate_nested_csv_extract(eps, field_dict, user) ==
    LET root == path_join(target_dir, <<user \o "." \o today>>)
        data_dict_file_name == "data_dictionary.html"
        csv_file_name == "extract.csv"
    IN  /\ pc = "idle"
        /\ pc' = "returned"
        /\ episodes' = eps
        /\ fields' = <<field_dict>>
        /\ username' = user
        /\ file_names' = << <<path_join(root, <<data_dict_file_name>>), data_dict_file_name>>,
                            <<path_join(root, <<csv_file_name>>), csv_file_name>> >>
        /\ disk' = << [path |-> path_join(root, <<data_dict_file_name>>),
                       file |-> write_data_dictionary],
                      [path |-> path_join(root, <<csv_file_name>>),
                       file |-> NestedCsv(tables, eps, field_dict)] >>
        /\ UNCHANGED <<tables, idx, archive, result, error, returned>>

\* generate_multi_csv_extract: episodes.csv
WriteEpisodesCsv ==
    LET file_name == "episodes.csv"
        full_file_name == path_join(root_dir, <<file_name>>)
        renderer == EpisodeCsvRenderer(episodes, <<>>)
    IN  /\ pc = "episodes_csv"
        /\ disk' = Append(disk, [path |-> full_file_name, file |-> write_to_file(renderer)])
        /\ file_names' = Append(file_names, <<full_file_name, file_name>>)
        /\ pc' = "subrecords"
        /\ idx' = 1
        /\ UNCHANGED <<tables, episodes, fields, username, archive, result, error, returned>>

SubrecordFileNameDisplay(subrecord) == get_display_name(subrecord) \o ".csv"

\* '{0}.csv'.format(subrecord.get_api_name())
SubrecordFileName(subrecord) == subrecord.api_name \o ".csv"

SubrecordWritesFileAlways(subrecord, renderer) == count(renderer) # 0

\* whether the loop of generate_multi_csv_extract writes a file for subrecord
SubrecordWritesFile(subrecord, renderer) ==
    ~subrecord._exclude_from_extract /\ count(renderer) # 0

\* generate_multi_csv_extract: one turn of the loop over subrecords()
WriteSubrecordCsv ==
    LET subrecord == SubrecordModels[idx]
        file_name == SubrecordFileName(subrecord)
        full_file_name == path_join(root_dir, <<file_name>>)
        renderer == SubrecordRenderer(tables, subrecord, episodes, <<>>)
    IN  /\ pc = "subrecords"
        /\ IF SubrecordWritesFile(subrecord, renderer)
           THEN /\ disk' = Append(disk, [path |-> full_file_name,
                                         file |-> write_to_file(renderer)])
                /\ file_names' = Append(file_names, <<full_file_name, file_name>>)
           ELSE UNCHANGED <<disk, file_names>>
        /\ IF idx = Len(SubrecordModels)
           THEN pc' = "zip" /\ idx' = 1
           ELSE pc' = pc /\ idx' = idx + 1
        /\ UNCHANGED <<tables, episodes, fields, username, archive, result, error, returned>>

\* zip_archive: one turn of the loop over file_names; z.write(filename,
\* arcname) stores the file at filename, which must exist, under arcname
ZipWrite ==
    /\ pc = "zip"
    /\ file_names[idx][1] \in {disk[i].path : i \in 1..Len(disk)}
    /\ archive' = Append(archive, [arcname |-> zip_relative_file_path(file_names[idx][2]),
                                   filename |-> file_names[idx][1]])
    /\ IF idx = Len(file_names)
       THEN pc' = "return" /\ idx' = 0
       ELSE pc' = pc /\ idx' = idx + 1
    /\ UNCHANGED <<tables, episodes, fields, username, file_names, disk, result, error, returned>>

\* the zip file is closed and its path returned
Return ==
    /\ pc = "return"
    /\ result' = <<target>>
    /\ pc' = "done"
    /\ UNCHANGED <<tables, episodes, fields, username, idx, file_names, disk,
                   archive, error, returned>>

\* A subrecord renderer is constructed on its own, as the extract's callers
\* and tests do, and asked for count() and get_rows().
RenderSubrecord(api_name, eps, flds) ==
    LET subrecord == get_subrecord_from_api_name(api_name)
        self == SubrecordRenderer(tables, subrecord, eps, flds)
    IN  /\ pc = "idle"
        /\ pc' = "called"
        /\ episodes' = eps
        /\ returned' = <<[fn |-> "get_rows", self |-> self,
                          count |-> count(self), rows |-> get_rows(self)]>>
        /\ UNCHANGED <<tables, fields, username, idx, file_names, disk, archive,
                       result, error>>

\* ExtractCsvSerialiser.get_data_dictionary_schema() is called, with list
\* the serialisers discovered.
GetDataDictionarySchema(list) ==
    /\ pc = "idle"
    /\ pc' = "called"
    /\ returned' = <<[fn |-> "get_data_dictionary_schema", list |-> list,
                      value |-> get_data_dictionary_schema(list)]>>
    /\ UNCHANGED <<tables, episodes, fields, username, idx, file_names, disk,
                   archive, result, error>>

\* the errors the file system and the ORM raise
Errors == {"IOError"}

\* the steps that write a file, read the database or add a zip entry
RaisingSteps == {"write_data_dictionary", "nested_csv", "episodes_csv",
                 "subrecords", "zip"}

RaiseSwallowed(exc) ==
    /\ pc \in RaisingSteps
    /\ error' = <<[step |-> pc, exc |-> exc]>>
    /\ pc' = "return"
    /\ UNCHANGED <<tables, episodes, fields, username, idx, file_names, disk,
                   archive, result, returned>>

\* A step raises: nothing in zip_archive or the generate functions catches,
\* so the error leaves zip_archive and the call is over.
Raise(exc) ==
    /\ pc \in RaisingSteps
    /\ error' = <<[step |-> pc, exc |-> exc]>>
    /\ pc' = "raised"
    /\ UNCHANGED <<tables, episodes, fields, username, idx, file_names, disk,
                   archive, result, returned>>

Next ==
    \/ \E api_name \in ApiNames, parent \in Episodes \cup Patients :
          CreateSubrecord(api_name, parent)
    \/ \E eps \in EpisodeQuerysets, flds \in FieldsArguments, user \in Usernames :
          ZipArchive(eps, flds, user)
    \/ \E eps \in EpisodeQuerysets, field_dict \in FieldDicts, user \in Usernames :
          generate_nested_csv_extract(eps, field_dict, user)
    \/ \E api_name \in ApiNames, eps \in RendererQuerysets :
          \E flds \in {<<>>} \cup {<<l>> : l \in FieldLists(api_name) \ {<<>>}} :
             RenderSubrecord(api_name, eps, flds)
    \/ \E list \in Discovered : GetDataDictionarySchema(list)
    \/ WriteDataDictionary
    \/ GenerateNestedCsv
    \/ WriteEpisodesCsv
    \/ WriteSubrecordCsv
    \/ ZipWrite
    \/ Return
    \/ \E exc \in Errors : Raise(exc)

Spec == Init /\ [][Next]_vars

(* ------------------------------------------------------------ the claims *)

\* the entries of the archive that are CSV files
CsvEntries == {i \in 1..Len(archive) : DiskRead(archive[i].filename).kind = "csv"}

\* the file names of the convention: episodes.csv and <api name>.csv
ConventionNames == {"episodes.csv"} \cup {a \o ".csv" : a \in ApiNames}

\* C1: when zip_archive has returned, the archive holds data_dictionary.html
\* and at least one CSV file, and every entry is stored under the one folder
\* '<username>.<date>', as that folder joined with the file's relative name.
C1_ArchiveLayout ==
    pc = "done" =>
        /\ result = <<target>>
        /\ \E i \in 1..Len(archive) :
              archive[i].arcname = <<username \o "." \o today, "data_dictionary.html">>
        /\ CsvEntries # {}
        /\ Len(archive) = Len(file_names)
        /\ \A i \in 1..Len(archive) :
              archive[i].arcname = <<username \o "." \o today, file_names[i][2]>>

\* C1's case: a call with a field_dict and no episodes has returned
C1_Witness == pc = "done" /\ Truthy(fields) /\ episodes = <<>> /\ Len(archive) = 2

\* C2 as stated: every CSV file of a returned archive is named episodes.csv
\* or <api name>.csv, with or without the fields argument.
C2_Original ==
    pc = "done" =>
        \A i \in CsvEntries : archive[i].arcname[Len(archive[i].arcname)] \in ConventionNames

\* C2 amended: without fields (None or empty) every CSV file of the archive
\* is named episodes.csv or <api name>.csv; with a non-empty fields the
\* archive holds exactly one CSV file, named extract.csv.
C2_CsvNames ==
    pc = "done" =>
        IF Truthy(fields)
        THEN /\ Cardinality(CsvEntries) = 1
             /\ \A i \in CsvEntries : archive[i].arcname[2] = "extract.csv"
        ELSE \A i \in CsvEntries : archive[i].arcname[2] \in ConventionNames

\* C2's case: an archive generated without fields that holds subrecord files
C2_Witness ==
    /\ pc = "done"
    /\ ~Truthy(fields)
    /\ Cardinality(CsvEntries) >= 3

\* the records of a model that belong to the episodes of a queryset (episode
\* subrecords) or to a patient of one of them (patient subrecords)
Matching(model, eps) ==
    {i \in 1..Len(tables[model.api_name]) :
        \E e \in 1..Len(eps) :
            tables[model.api_name][i] =
                IF model.parent = "episode" THEN eps[e].id ELSE eps[e].parent}

\* generate_multi_csv_extract has just returned to zip_archive
MultiReturned == pc = "zip" /\ idx = 1 /\ ~Truthy(fields)

\* C5: generate_multi_csv_extract returns pairs (root_dir joined with the
\* file name, file name), data_dictionary.html first, episodes.csv second,
\* and <api name>.csv exactly for the models that are not excluded from the
\* extract and have a record of the episodes or of their patients.
C5_MultiFileNames ==
    MultiReturned =>
        /\ \A i \in 1..Len(file_names) :
              file_names[i][1] = target_dir \o <<username \o "." \o today, file_names[i][2]>>
        /\ Len(file_names) >= 2
        /\ file_names[1][2] = "data_dictionary.html"
        /\ file_names[2][2] = "episodes.csv"
        /\ \A m \in 1..Len(SubrecordModels) :
              LET model == SubrecordModels[m]
              IN  (\E i \in 1..Len(file_names) :
                      file_names[i][2] = model.api_name \o ".csv")
                  <=> (~model._exclude_from_extract /\ Matching(model, episodes) # {})

\* C5's case: an excluded model and another model both have records of the
\* episodes, and generate_multi_csv_extract has returned
C5_Witness ==
    /\ MultiReturned
    /\ \E m \in 1..Len(SubrecordModels) :
          /\ SubrecordModels[m]._exclude_from_extract
          /\ Matching(SubrecordModels[m], episodes) # {}
    /\ Len(file_names) = 3

\* C6: a step that raises ends the call with that error: the call is
\* raised at the step that failed, nothing is generated, written or zipped
\* afterwards, no step runs again and no archive path is returned.
C6_NoRetryNoRecovery ==
    /\ [][(error = <<>> /\ error' # <<>>) =>
            /\ pc' = "raised"
            /\ error'[1].step = pc
            /\ UNCHANGED <<file_names, disk, archive, result>>]_vars
    /\ [][pc = "raised" => UNCHANGED vars]_vars
    /\ [](error # <<>> => pc = "raised" /\ result = <<>>)
    /\ [](result # <<>> => error = <<>>)

\* C6's case: the loop over the subrecords has raised after files were written
C6_Witness ==
    /\ pc = "raised"
    /\ error # <<>>
    /\ error[1].step = "subrecords"
    /\ Len(disk) >= 3

\* generate_nested_csv_extract has just returned, to its caller or to
\* zip_archive
NestedReturned ==
    \/ pc = "returned"
    \/ (pc = "zip" /\ idx = 1 /\ Truthy(fields))

\* the extract.csv it wrote, and the renderers it constructed
ExtractCsv == DiskRead(file_names[2][1])

Constructed == NestedRenderers(tables, episodes, fields[1])

\* the renderers generate_multi_csv_extract constructs, none with fields
MultiConstructed ==
    LET Extracted(subrecord) == ~subrecord._exclude_from_extract
        models == SelectSeq(SubrecordModels, Extracted)
    IN  <<EpisodeCsvRenderer(episodes, <<>>)>> \o
        [i \in 1..Len(models) |-> SubrecordRenderer(tables, models[i], episodes, <<>>)]

IsSubrecordRenderer(self) ==
    self.cls \in {"PatientSubrecordCsvRenderer", "EpisodeSubrecordCsvRenderer"}

\* the header of one field of a renderer class: the display name of the
\* non-field column called field, or else the title of the model's field
HeaderOf(cls, model, field) ==
    LET cols == non_field_csv_columns(cls)
    IN  IF \E i \in 1..Len(cols) : cols[i].name = field
        THEN (CHOOSE c \in Range(cols) : c.name = field).display_name
        ELSE _get_field_title(model, field)

ClassOf(api_name) ==
    IF api_name = "episode" THEN "EpisodeCsvRenderer"
    ELSE IF get_subrecord_from_api_name(api_name).parent = "episode"
    THEN "EpisodeSubrecordCsvRenderer" ELSE "PatientSubrecordCsvRenderer"

\* the header columns that the pair (api name, field) can give
ColumnsOf(api_name, field) ==
    LET model == get_subrecord_from_api_name(api_name)
        header == HeaderOf(ClassOf(api_name), model, field)
    IN  {model.display_name \o " " \o header} \cup
        {model.display_name \o " " \o ToString(n) \o " " \o header : n \in 1..MaxRecords}

\* C3: extract.csv holds only what field_dict mentions: every header column
\* comes from a listed (api name, field) pair, and every listed field of a
\* model with a matching record (of the episode, when listed) has a column.
C3_OnlyFieldDict ==
    NestedReturned =>
        LET field_dict == fields[1]
            headers == Range(ExtractCsv.headers)
        IN  /\ headers \subseteq
                  UNION {UNION {ColumnsOf(field_dict[k][1], field_dict[k][2][f]) :
                                   f \in 1..Len(field_dict[k][2])} :
                            k \in 1..Len(field_dict)}
            /\ \A k \in 1..Len(field_dict) :
                  LET api_name == field_dict[k][1]
                  IN  (\/ api_name = "episode"
                       \/ Matching(get_subrecord_from_api_name(api_name), episodes) # {})
                      => \A f \in 1..Len(field_dict[k][2]) :
                            ColumnsOf(api_name, field_dict[k][2][f]) \cap headers # {}

\* the display names the renderers' columns are declared with
DeclaredDisplayName(cls, name) ==
    CASE cls = "PatientSubrecordCsvRenderer" /\ name = "episode_id" -> "Episode"
      [] cls = "EpisodeSubrecordCsvRenderer" /\ name = "patient_id" -> "Patient"
      [] cls = "EpisodeCsvRenderer" /\ name = "created_by_id" -> "Created By"
      [] cls = "EpisodeCsvRenderer" /\ name = "updated_by_id" -> "Updated By"
      [] cls = "EpisodeCsvRenderer" /\ name = "patient_id" -> "Patient"
      [] OTHER -> TitleOf(name)

\* the arguments get_rows and get_nested_row pass to get_row with a record
RowArguments(self, instance) ==
    IF self.cls = "PatientSubrecordCsvRenderer"
    THEN {<<self.patient_to_episode[instance.parent][j]>> :
             j \in 1..Len(self.patient_to_episode[instance.parent])}
    ELSE {<<>>}

\* the renderers of the call that has just returned
JustConstructed ==
    IF NestedReturned THEN Constructed
    ELSE IF MultiReturned THEN MultiConstructed
    ELSE <<>>

\* C4: a column named like a model field overrides the field: the header is
\* the column's display name (name.title() when none is declared), the cell
\* is the result of the column's value function and not the to_dict value,
\* and discovery lists the name exactly once.
C4_ColumnOverrides ==
    (NestedReturned \/ MultiReturned) =>
        LET renderers == JustConstructed
        IN  \A r \in 1..Len(renderers) :
            LET self == renderers[r]
                cols == non_field_csv_columns(self.cls)
                names == get_field_names_to_render(self.cls, self.model)
            IN  \A c \in 1..Len(cols) :
                /\ Cardinality({i \in 1..Len(names) : names[i] = cols[c].name}) = 1
                /\ \A i \in 1..Len(self.fields) :
                      cols[c].name = self.fields[i] =>
                         /\ get_headers(self)[i]
                               = DeclaredDisplayName(self.cls, cols[c].name)
                         /\ \A q \in 1..Len(self.queryset) :
                               \A args \in RowArguments(self, self.queryset[q]) :
                                  LET cell == get_row(self, self.queryset[q], args)[i]
                                  IN  /\ cell = _encode_to_utf8(
                                                 ColumnValue(cols[c], self.queryset[q], args))
                                      /\ cols[c].name \in
                                            Range(_get_fieldnames_to_extract(self.model))
                                         => cell # _encode_to_utf8(
                                               get_field_value(cols[c].name,
                                                               self.queryset[q]))

\* C4's case: a renderer with records whose fields hold a column named like
\* a field of its model
C4_Witness ==
    \E r \in 1..Len(JustConstructed) :
        LET self == JustConstructed[r]
        IN  /\ Len(self.queryset) > 0
            /\ \E i \in 1..Len(self.fields) :
                  /\ self.fields[i] \in Range(get_non_field_csv_column_names(self.cls))
                  /\ self.fields[i] \in Range(_get_fieldnames_to_extract(self.model))

StatedRepetitions(model, eps) ==
    LET matching == Matching(model, eps)
        t == tables[model.api_name]
    IN  IF matching = {} THEN 0
        ELSE IF model._is_singleton THEN 1
        ELSE Max({Cardinality({i \in matching : t[i] = t[j]}) : j \in matching})

\* C8: a subrecord renderer's flat headers are flat_repetitions times its
\* headers, '<display name> <header>' with one repetition and '<display
\* name> <n> <header>' with more, repetition by repetition; the episode
\* renderer's are 'Episode <header>', one per field.
C8_FlatHeaders ==
    NestedReturned =>
        LET renderers == Constructed
        IN  \A r \in 1..Len(renderers) :
            LET self == renderers[r]
                single == get_headers(self)
                flat == get_flat_headers(self)
                n == Len(single)
                display == self.model.display_name
                reps == StatedRepetitions(self.model, episodes)
            IN  IF self.cls = "EpisodeCsvRenderer"
                THEN /\ Len(flat) = Len(self.fields)
                     /\ \A i \in 1..Len(flat) : flat[i] = "Episode " \o single[i]
                ELSE /\ flat_repetitions(self) = reps
                     /\ Len(flat) = reps * n
                     /\ \A rep \in 1..reps, i \in 1..n :
                           flat[(rep - 1) * n + i] =
                              IF reps = 1 THEN display \o " " \o single[i]
                              ELSE display \o " " \o ToString(rep) \o " " \o single[i]

\* C8's case: a subrecord renderer whose records repeat
C8_Witness ==
    /\ NestedReturned
    /\ \E r \in 1..Len(Constructed) :
          /\ IsSubrecordRenderer(Constructed[r])
          /\ Len(get_flat_headers(Constructed[r])) = 2 * Len(Constructed[r].fields)
          /\ Len(Constructed[r].fields) >= 2

\* the records of a model that belong to parent, in id order
RecordsOf(model, parent) ==
    LET OfParent(sub) == sub.parent = parent
    IN  SelectSeq(Objects(tables, model), OfParent)

\* C9: get_nested_row lays the k records of the episode (of its patient) out
\* as k blocks of len(fields) cells, block j the row of the j-th record, a
\* patient subrecord's episode column holding this episode's id, and every
\* cell after them up to flat_row_length is ''.
C9_NestedRowLayout ==
    NestedReturned =>
        LET renderers == Constructed
        IN  \A r \in 1..Len(renderers), e \in 1..Len(episodes) :
            LET self == renderers[r]
                patient == self.cls = "PatientSubrecordCsvRenderer"
                records == RecordsOf(self.model,
                               IF patient THEN episodes[e].parent ELSE episodes[e].id)
                k == Len(records)
                n == Len(self.fields)
                row == get_nested_row(self, episodes[e])
                args == IF patient THEN <<episodes[e].id>> ELSE <<>>
            IN  IsSubrecordRenderer(self) =>
                   /\ Len(row) = flat_row_length(self)
                   /\ k * n <= Len(row)
                   /\ \A j \in 1..k :
                         /\ SubSeq(row, (j - 1) * n + 1, j * n) = get_row(self, records[j], args)
                         /\ \A i \in 1..n :
                               (patient /\ self.fields[i] = "episode_id") =>
                                  row[(j - 1) * n + i] = Bytes(ToString(episodes[e].id))
                   /\ \A i \in (k * n + 1)..Len(row) : row[i] = Bytes("")

\* C9's case: a patient subrecord renderer with an episode column, an episode
\* with a record and an episode without
C9_Witness ==
    /\ NestedReturned
    /\ \E r \in 1..Len(Constructed), e1, e2 \in 1..Len(episodes) :
          LET self == Constructed[r]
          IN  /\ self.cls = "PatientSubrecordCsvRenderer"
              /\ "episode_id" \in Range(self.fields)
              /\ Len(RecordsOf(self.model, episodes[e1].parent)) >= 1
              /\ Len(RecordsOf(self.model, episodes[e2].parent)) = 0

\* the names C10 states for a renderer without fields
StatedDiscovery(cls, model) ==
    LET cols == non_field_csv_columns(cls)
        names == [i \in 1..Len(cols) |-> cols[i].name]
        Kept(field_name) ==
            /\ field_name \notin Range(names)
            /\ field_name # "consistency_token"
            /\ cls # "EpisodeCsvRenderer" => field_name # "id"
    IN  names \o SelectSeq(_get_fieldnames_to_extract(model), Kept)

\* C10: without fields a renderer lists its non-field columns in declared
\* order, then the model's extract fields in model order without the names
\* of those columns, without consistency_token, without repeats and, for the
\* subrecord renderers, without id; with a non-empty fields it uses that list.
C10_ColumnDiscovery ==
    /\ MultiReturned =>
          LET renderers == MultiConstructed
          IN  \A r \in 1..Len(renderers) :
              LET self == renderers[r]
              IN  /\ self.fields = StatedDiscovery(self.cls, self.model)
                  /\ "consistency_token" \notin Range(self.fields)
                  /\ IsSubrecordRenderer(self) => "id" \notin Range(self.fields)
                  /\ \A i, j \in 1..Len(self.fields) :
                        self.fields[i] = self.fields[j] => i = j
    /\ NestedReturned =>
          LET renderers == Constructed
          IN  \A r \in 1..Len(renderers) :
              LET passed == Lookup(fields[1], renderers[r].model.api_name)
              IN  passed # <<>> => renderers[r].fields = passed

\* C10's case: generate_multi_csv_extract has constructed its renderers
\* without fields, of a model whose fields hold a column's name
C10_Witness ==
    /\ MultiReturned
    /\ Len(MultiConstructed) = 5
    /\ Len(MultiConstructed[1].fields) = 10
    /\ Len(episodes) > 0

\* a subrecord renderer constructed on its own has returned count and rows
RowsReturned == pc = "called" /\ returned # <<>> /\ returned[1].fn = "get_rows"

\* C11: PatientSubrecordCsvRenderer.get_rows yields one row for each pair of
\* a record of the model and an episode of the queryset with the record's
\* patient: the rows of one record are together, in the queryset's order of
\* its episodes, each the record's row with the text of that episode's id in
\* the episode_id column, and no row names an episode outside the queryset.
C11_PatientRows ==
    (RowsReturned /\ returned[1].self.cls = "PatientSubrecordCsvRenderer") =>
        LET self == returned[1].self
            rows == returned[1].rows
            records == Objects(tables, self.model)
            Selected(i) ==
                {j \in 1..Len(episodes) : episodes[j].parent = records[i].parent}
            Pairs == {p \in (1..Len(records)) \X (1..Len(episodes)) :
                         p[2] \in Selected(p[1])}
            Before(i) == Cardinality({p \in Pairs : p[1] < i})
            Rank(i, j) == Cardinality({k \in Selected(i) : k <= j})
            EpisodeColumns == {c \in 1..Len(self.fields) : self.fields[c] = "episode_id"}
        IN  /\ Len(rows) = Cardinality(Pairs)
            /\ \A p \in Pairs :
                  LET row == rows[Before(p[1]) + Rank(p[1], p[2])]
                  IN  /\ row = get_row(self, records[p[1]], <<episodes[p[2]].id>>)
                      /\ \A c \in EpisodeColumns :
                            row[c] = Bytes(ToString(episodes[p[2]].id))
            /\ \A k \in 1..Len(rows), c \in EpisodeColumns :
                  \E j \in 1..Len(episodes) :
                     rows[k][c] = Bytes(ToString(episodes[j].id))

\* C11's case: records of both patients, one patient's two episodes selected
\* in reverse id order with the other patient's episode between them
C11_Witness ==
    /\ RowsReturned
    /\ returned[1].self.cls = "PatientSubrecordCsvRenderer"
    /\ "episode_id" \in Range(returned[1].self.fields)
    /\ Len(episodes) = 3
    /\ Len(returned[1].rows) = 3

\* C12: a subrecord renderer's count() is positive exactly when its
\* get_rows() yields a row, whatever the episode queryset and the stored
\* records; so every subrecord file that generate_multi_csv_extract writes
\* has at least one data row after its header.
C12_CountIffRows ==
    /\ RowsReturned =>
          /\ (returned[1].count > 0) <=> (Len(returned[1].rows) > 0)
          /\ returned[1].count =
                Cardinality(Matching(returned[1].self.model, episodes))
    /\ MultiReturned =>
          \A i \in 3..Len(file_names) : Len(DiskRead(file_names[i][1]).rows) >= 1

\* C12's case: records of the model are stored, episodes are selected, and
\* none of the records belongs to them
C12_Witness ==
    /\ RowsReturned
    /\ Len(tables[returned[1].self.model.api_name]) > 0
    /\ Len(episodes) > 0
    /\ returned[1].count = 0

\* get_data_dictionary_schema has returned
SchemaReturned ==
    pc = "called" /\ returned # <<>> /\ returned[1].fn = "get_data_dictionary_schema"

\* C13: get_data_dictionary_schema returns the schema of each discovered
\* serialiser, in list() order, then the default schema of each subrecord
\* model whose api name is no discovered slug, in subrecords() order; every
\* subrecord model is described exactly once, by the serialiser with its api
\* name as slug or else by its default schema; the episode schema holds the
\* field 'team' and its fields are in the order of their titles.
C13_DataDictionarySchema ==
    SchemaReturned =>
        LET list == returned[1].list
            value == returned[1].value
            slugs == {list[i].slug : i \in 1..Len(list)}
            defaults == {m \in 1..Len(SubrecordModels) :
                            SubrecordModels[m].api_name \notin slugs}
            Described(api_name) == {i \in 1..Len(value) : value[i].name = api_name}
        IN  /\ Len(value) = Len(list) + Cardinality(defaults)
            /\ \A i \in 1..Len(list) : value[i] = get_schema(list[i])
            /\ \A m \in defaults :
                  \E i \in (Len(list) + 1)..Len(value) :
                     /\ value[i] = extract_download_schema_for_model(SubrecordModels[m])
                     /\ i - Len(list) = Cardinality({k \in defaults : k <= m})
            /\ \A m \in 1..Len(SubrecordModels) :
                  LET api_name == SubrecordModels[m].api_name
                  IN  /\ Cardinality(Described(api_name)) = 1
                      /\ \A i \in Described(api_name) :
                            IF api_name \in slugs
                            THEN i <= Len(list) /\ list[i].slug = api_name
                            ELSE i > Len(list)
            /\ \A i \in Described("episode") :
                  /\ \E f \in 1..Len(value[i].fields) : value[i].fields[f].name = "team"
                  /\ Len(value[i].fields) = Len(EpisodeModel.declared) + 1
                  /\ \A f, g \in 1..Len(value[i].fields) :
                        f < g => TitleRank(value[i].fields[f].title)
                                    <= TitleRank(value[i].fields[g].title)

\* C13's case: serialisers of two subrecord models are discovered around
\* EpisodeCsvRenderer, and the other models get their default schemas
C13_Witness ==
    /\ SchemaReturned
    /\ Len(returned[1].list) = 3
    /\ Len(returned[1].value) = 6
    /\ returned[1].value[2].name = "episode"

====
